---- MODULE Spec2Model ----
(***************************************************************************)
(* project-space-mcp: the tools.json watcher (ToolsWatcher), the tool      *)
(* registry (ToolRegistry), the server start-up that wires them            *)
(* (startServer / startWatcher), and the execution engine (executeCommand, *)
(* executeBash, executePython) with the child process it runs.             *)
(*                                                                         *)
(* Node runs every callback to completion, so one action is one callback:  *)
(* a timer firing, a chokidar event, or the continuation of an `await`.    *)
(* An awaited file operation is two steps: the operation itself on the     *)
(* thread pool (it captures what the file is at that moment) and, later,   *)
(* the continuation that consumes the captured result.  Continuations      *)
(* that follow an already-settled promise run in the same step.            *)
(***************************************************************************)
EXTENDS Integers, Sequences, FiniteSets, Bags, TLC

\* ------------------------------------------------------------------ bounds
MaxFsOps == 2      \* file writes and deletions performed by the environment
MaxTasks == 2      \* poll()/loadAndEmit() calls in flight at one time
MaxEvents == 1     \* chokidar events queued per watcher
MaxParams == 2     \* entries of the parameter mapping of a tools/call
MaxStops == 2      \* calls of stop() made on one watcher by its owner
MaxTools == 3      \* tools declared by a snapshot handed to the registry alone

\* The initial project root (1) and the root the client may provide (2).
\* Watcher w is the ToolsWatcher constructed for root w.
Roots == {1, 2}

\* ------------------------------------------------------------ file contents
Tool(n, b) == [name |-> n, body |-> b]

\* A file content: does it parse as JSON, does it pass the schema, its tools.
Content(j, v, ts) == [json |-> j, valid |-> v, tools |-> ts]
CfgA == Content(TRUE, TRUE, <<Tool("a", 1)>>)
CfgBA == Content(TRUE, TRUE, <<Tool("b", 1), Tool("a", 2)>>)
BadJson == Content(FALSE, FALSE, <<>>)
BadSchema == Content(TRUE, FALSE, <<>>)
ValidContents == {CfgA, CfgBA}
Contents == ValidContents \cup {BadJson, BadSchema}
\* What the environment puts at each root: anything at the initial root, one
\* valid configuration at the client's root.
ContentsOf(r) == IF r = 1 THEN Contents ELSE {CfgBA}
Files(r) ==
    {[exists |-> FALSE, content |-> BadJson, mtime |-> 0]}
    \cup {[exists |-> TRUE, content |-> c, mtime |-> 1] : c \in ContentsOf(r)}

VARIABLES
    fs,        \* fs[r]: tools.json of root r: exists, content, mtime
    clock,     \* file operations so far; the next mtime is clock + 1
    wt,        \* wt[w]: the fields of ToolsWatcher w
    tasks,     \* the poll()/loadAndEmit() calls in flight (a bag)
    evq,       \* evq[w]: chokidar events raised for w, not yet delivered
    regTools,  \* ToolRegistry.tools, in Map insertion order
    srv,       \* startServer: where it is, currentProjectRoot
    notes,     \* notes[w]: deletions of the file, 'delete' emitted (observation only)
    emitted,   \* the last notification a watcher emitted (observation only)
    lastOp,    \* the last registry mutation and what it reported (observation only)
    run,       \* one executeCommand invocation: its inputs, its child, its timers
    rpc        \* the request handlers: the last tools/call, the last tools/list

vars == <<fs, clock, wt, tasks, evq, regTools, srv, notes, emitted, lastOp, run, rpc>>

\* The watcher, the registry and the server.
wvars == <<fs, clock, wt, tasks, evq, regTools, srv, notes, emitted, lastOp, rpc>>

\* ------------------------------------------------------------------ registry
Names(ts) == {ts[i].name : i \in 1..Len(ts)}

RECURSIVE IndexOfName(_, _, _)
IndexOfName(m, n, i) ==
    IF i > Len(m) THEN 0
    ELSE IF m[i].name = n THEN i ELSE IndexOfName(m, n, i + 1)

\* Map.set: a new key is appended, an existing key keeps its place.
MapSet(m, t) ==
    LET i == IndexOfName(m, t.name, 1)
    IN  IF i = 0 THEN Append(m, t) ELSE [m EXCEPT ![i] = t]

RECURSIVE SetAll(_, _, _)
SetAll(m, ts, i) ==
    IF i > Len(ts) THEN m ELSE SetAll(MapSet(m, ts[i]), ts, i + 1)

\* Repopulating without the clear: the old entries stay.
SetAllNoClear(old, ts) == SetAll(old, ts, 1)

\* updateFromConfig, the map: clear, then set every tool in order.
Repopulate(old, ts) == SetAll(<<>>, ts, 1)

\* getTools: the values of the map, in insertion order.
getTools(m) == m

\* getTool that falls back to the first entry for a name it does not hold.
getToolOrFirst(m, n) ==
    LET i == IndexOfName(m, n, 1)
    IN  IF i = 0 THEN (IF m = <<>> THEN <<>> ELSE <<m[1]>>) ELSE <<m[i]>>

\* getTool: the value under the name, or nothing (undefined).
getTool(m, n) ==
    LET i == IndexOfName(m, n, 1)
    IN  IF i = 0 THEN <<>> ELSE <<m[i]>>

\* updateFromConfig: the new map, the diff it logs, the 'update' it emits.
updateFromConfig(old, cfg, ver) ==
    LET new == Repopulate(old, cfg.tools)
        oldNames == Names(old)
        newNames == Names(cfg.tools)
    IN  [tools |-> new,
         op |-> [kind |-> "update",
                 same |-> (cfg.tools = old),
                 added |-> SelectSeq(cfg.tools, LAMBDA t : t.name \notin oldNames),
                 removed |-> oldNames \ newNames,
                 updated |-> SelectSeq(cfg.tools, LAMBDA t : t.name \in oldNames),
                 emitted |-> TRUE,
                 payload |-> new,
                 ver |-> ver]]

\* clear that emits 'update' whether or not it had tools.
clearAlwaysEmits(old) ==
    [tools |-> <<>>,
     op |-> [kind |-> "clear", same |-> (old = <<>>), added |-> <<>>,
             removed |-> {}, updated |-> <<>>, emitted |-> TRUE,
             payload |-> <<>>, ver |-> 0]]

\* clear: empties the map; emits 'update' only when it had tools.
clear(old) ==
    [tools |-> <<>>,
     op |-> [kind |-> "clear", same |-> (old = <<>>), added |-> <<>>,
             removed |-> {}, updated |-> <<>>, emitted |-> (Len(old) > 0),
             payload |-> <<>>, ver |-> 0]]

NoOp ==
    [kind |-> "none", same |-> TRUE, added |-> <<>>, removed |-> {},
     updated |-> <<>>, emitted |-> FALSE, payload |-> <<>>, ver |-> 0]

\* -------------------------------------------------------------------- parser
\* parseToolsJson once the file has been read: JSON.parse, then the schema.
ParseContent(c) ==
    IF ~c.json THEN [success |-> FALSE, stage |-> "parse", config |-> <<>>]
    ELSE IF ~c.valid THEN [success |-> FALSE, stage |-> "schema", config |-> <<>>]
    ELSE [success |-> TRUE, stage |-> "ok", config |-> <<c>>]

\* ------------------------------------------------------------------- watcher
\* timeouts: the debounce timeouts of this watcher pending in the event
\* loop, oldest first, each with its delay and the ordinal, within its
\* burst, of the event that set it; debounceTimer: the field holds one;
\* burst: events handled since a debounce timer last fired (observation);
\* stops: calls of stop() that have returned (observation).
NewWatcher ==
    [phase |-> "none", fsWatcher |-> FALSE, pollTimer |-> FALSE,
     debounceTimer |-> FALSE, lastMtime |-> 0, lastConfig |-> <<>>,
     timeouts |-> <<>>, burst |-> 0, stops |-> 0]

DEBOUNCE_DELAY == 300

\* clearTimeout(this.debounceTimer): the field holds the timeout set last.
clearTimeout(ts) == IF ts = <<>> THEN ts ELSE SubSeq(ts, 1, Len(ts) - 1)

\* A call in flight: whose it is, the await it is at, who started it, and
\* what the awaited file operation has captured.
Task(w, pc, origin) ==
    [w |-> w, pc |-> pc, origin |-> origin, mt |-> 0, data |-> <<>>, ver |-> 0]

Add(t) == tasks (+) SetToBag({t})
Drop(t) == tasks (-) SetToBag({t})
Replace(t, u) == (tasks (-) SetToBag({t})) (+) SetToBag({u})
InFlight == BagToSet(tasks)
Room == BagCardinality(tasks) < MaxTasks

\* nDeleted: deletions of the watched file; nDelete: 'delete' notifications.
NoNotes == [nDeleted |-> 0, nDelete |-> 0]
NoteDelete(n) == [n EXCEPT !.nDelete = IF @ > MaxFsOps THEN @ ELSE @ + 1]
Emit(w, kind) == [w |-> w, kind |-> kind, flip |-> ~emitted.flip]

\* ---------------------------------------------------- executor: the inputs
DEFAULT_TIMEOUT == 30000
KILL_GRACE == 1000

\* An optional field is <<>> when it is not present, <<v>> when it is v.
Executors ==
    [type : {"bash", "python", "node"},
     code : {<<>>, <<"">>, <<"prog">>},
     file : {<<>>, <<"run.sh">>},
     timeout : {<<>>, <<-1>>, <<0>>, <<50>>}]

\* A parameter value as the client sends it: a string, a number or null.
Value(t, sv, n) == [t |-> t, s |-> sv, n |-> n]
Values == {Value("string", "Ada", 0), Value("number", "", 7), Value("null", "", 0)}
Keys == {"name", "NAME", "TOOL_NAME"}

\* Object.entries(params): the keys of an object are distinct.
ParamMaps ==
    {p \in UNION {[1..n -> Keys \X Values] : n \in 0..MaxParams} :
        \A i, j \in DOMAIN p : p[i][1] = p[j][1] => i = j}

\* The script file the executor refers to, as the file system has it.
ScriptStates == {"missing", "present", "unreadable"}

NoTimer == [state |-> "none", delay |-> 0]

\* An invocation about to run: executeCommand(executor, params, projectRoot,
\* mcpDir, toolName) has been called and nothing of it has run yet.
Run(executor, params, script, interp) ==
    [pc |-> "init", executor |-> executor, params |-> params,
     projectRoot |-> "/proj", mcpDir |-> "/proj/.mcp", toolName |-> "greet",
     script |-> script, interp |-> interp,
     timeout |-> 0, env |-> <<>>, read |-> <<>>, spawned |-> <<>>,
     proc |-> "none", exit |-> <<>>, procKilled |-> FALSE, killed |-> FALSE,
     timer |-> NoTimer, grace |-> NoTimer, sent |-> <<>>,
     result |-> <<>>, rejected |-> FALSE]

\* --------------------------------------------------- the request handlers
\* The last tools/call handled: the name asked for, how far the handler got
\* ("unknown", "not_initialized", "executing", "done"), the definition and
\* the project root it passed to executeCommand, and the response.
NoCall ==
    [name |-> "", outcome |-> "none", tool |-> <<>>, root |-> 0, response |-> <<>>]

\* The last tools/list handled: "waiting" while it awaits initPromise, its
\* 5-second timer, and the tools it answered with.
NoList == [state |-> "none", timer |-> FALSE, answer |-> <<>>]

\* forced: initResolve() was called by a tools/list timer while
\* isInitialized was false.
NoRpc == [call |-> NoCall, list |-> NoList, forced |-> FALSE]

NoRun ==
    [Run([type |-> "bash", code |-> <<>>, file |-> <<>>, timeout |-> <<>>],
         <<>>, "missing", FALSE) EXCEPT !.pc = "none"]

Init ==
    /\ fs \in [Roots -> Files(1) \cup Files(2)]
    /\ \A r \in Roots : fs[r] \in Files(r)
    /\ clock = 1
    /\ wt = [w \in Roots |-> NewWatcher]
    /\ tasks = EmptyBag
    /\ evq = [w \in Roots |-> <<>>]
    /\ regTools = <<>>
    /\ srv = [pc |-> "init", currentProjectRoot |-> 0]
    /\ notes = [w \in Roots |-> NoNotes]
    /\ emitted = [w |-> 0, kind |-> "none", flip |-> FALSE]
    /\ lastOp = NoOp
    /\ run = NoRun
    /\ rpc = NoRpc

\* ---------------------------------------------------------- registry wiring
\* startWatcher's handlers: 'change' -> registry.updateFromConfig(config),
\* 'delete' -> registry.clear(), 'error' -> a log line.
OnChange(w, cfg, ver) ==
    LET r == updateFromConfig(regTools, cfg, ver)
    IN  /\ regTools' = r.tools /\ lastOp' = r.op /\ emitted' = Emit(w, "change")
        /\ UNCHANGED <<run, rpc>>

\* A 'delete' handler that leaves the Registry as it is.
OnDeleteKeepsTools(w) ==
    /\ emitted' = Emit(w, "delete")
    /\ notes' = [notes EXCEPT ![w] = NoteDelete(@)]
    /\ UNCHANGED <<regTools, lastOp, run, rpc>>

OnDelete(w) ==
    LET r == clear(regTools)
    IN  /\ regTools' = r.tools /\ lastOp' = r.op /\ emitted' = Emit(w, "delete")
        /\ notes' = [notes EXCEPT ![w] = NoteDelete(@)]
        /\ UNCHANGED <<run, rpc>>

OnError(w) ==
    /\ emitted' = Emit(w, "error")
    /\ UNCHANGED <<regTools, lastOp, notes, run, rpc>>

Quiet == UNCHANGED <<regTools, lastOp, notes, emitted, run, rpc>>

\* --------------------------------------------------------------- start / stop
\* start() after its initial load: the chokidar watcher and the poll timer.
Armed(wr) == [wr EXCEPT !.phase = "active", !.fsWatcher = TRUE, !.pollTimer = TRUE]

\* What a returning loadAndEmit continues with: start() arms the channels.
AfterLoad(wr, origin) == IF origin = "start" THEN Armed(wr) ELSE wr

\* startServer after `await startWatcher(root)`.
AfterStartPc(w) == IF w = 1 THEN "negotiating" ELSE "ready"
AfterLoadSrv(w, origin) ==
    IF origin = "start" THEN [srv EXCEPT !.pc = AfterStartPc(w)] ELSE srv

\* The synchronous head of loadAndEmit: existsSync, then stat is issued.
\* `rest` is the bag without the caller.
loadAndEmit(w, origin, rest) ==
    IF fs[w].exists THEN rest (+) SetToBag({Task(w, "stat_io", origin)}) ELSE rest

\* A start() that arms the poll timer without awaiting the initial load.
StartingArmed == [NewWatcher EXCEPT !.phase = "starting", !.pollTimer = TRUE]

\* start() while it awaits its initial load: nothing is armed yet.
Starting == [NewWatcher EXCEPT !.phase = "starting"]

\* startWatcher once any previous watcher is stopped: the new watcher, its
\* handlers, start() up to the first await of its initial load.  wts is the
\* watcher table as the stop left it.
startWatcher(w, wts) ==
    /\ wt' = [wts EXCEPT ![w] =
                 IF fs[w].exists THEN Starting
                 ELSE Armed(NewWatcher)]
    /\ tasks' = loadAndEmit(w, "start", tasks)
    /\ srv' = [pc |-> IF fs[w].exists THEN "starting" ELSE AfterStartPc(w),
               currentProjectRoot |-> w]

startServer ==
    /\ srv.pc = "init"
    /\ startWatcher(1, wt)
    /\ UNCHANGED <<fs, clock, evq>>
    /\ Quiet

\* initializeProjectRoot returns root r.  A different root: startWatcher(r)
\* calls stop() on the running watcher, which awaits chokidar's close().
rootsResult(r) ==
    /\ srv.pc = "negotiating"
    /\ IF r = srv.currentProjectRoot
       THEN /\ srv' = [srv EXCEPT !.pc = "ready"]
            /\ UNCHANGED <<wt, evq>>
       ELSE /\ srv' = [srv EXCEPT !.pc = "switching"]
            /\ wt' = [wt EXCEPT ![srv.currentProjectRoot].phase = "closing"]
            /\ evq' = [evq EXCEPT ![srv.currentProjectRoot] = <<>>]
    /\ UNCHANGED <<fs, clock, tasks>>
    /\ Quiet

\* stop() that cancels nothing and leaves its fields set.
StoppedKeepsHandles(wr) == [wr EXCEPT !.phase = "stopped", !.stops = @ + 1]

\* stop() after close(): the fields are cleared, the timers cancelled.
Stopped(wr) ==
    [wr EXCEPT !.phase = "stopped", !.fsWatcher = FALSE, !.pollTimer = FALSE,
               !.debounceTimer = FALSE,
               !.timeouts = IF wr.debounceTimer THEN clearTimeout(@) ELSE @,
               !.burst = 0, !.stops = @ + 1]

\* stop() called on watcher w by its owner, up to its return or to the
\* await of close(): without a subscription nothing is awaited.
stop(w) ==
    /\ wt[w].phase # "closing"
    /\ wt[w].stops < MaxStops
    /\ IF wt[w].fsWatcher
       THEN /\ wt' = [wt EXCEPT ![w].phase = "closing"]
            /\ evq' = [evq EXCEPT ![w] = <<>>]
       ELSE /\ wt' = [wt EXCEPT ![w] = Stopped(@)]
            /\ UNCHANGED evq
    /\ UNCHANGED <<fs, clock, tasks, srv>>
    /\ Quiet

\* stop() after `await this.fsWatcher.close()`.
stopClosed(w) ==
    /\ wt[w].phase = "closing"
    /\ wt' = [wt EXCEPT ![w] = Stopped(@)]
    /\ UNCHANGED <<fs, clock, tasks, evq, srv>>
    /\ Quiet

\* stop() resolves and startWatcher goes on with the client's root.
stopDone ==
    /\ srv.pc = "switching"
    /\ Room
    /\ startWatcher(2, [wt EXCEPT ![1] = Stopped(wt[1])])
    /\ UNCHANGED <<fs, clock, evq>>
    /\ Quiet

\* ------------------------------------------------------------- file system
\* chokidar raises an event for the watcher subscribed to the path; the
\* notification may be lost (network mounts), and is lost when d is FALSE.
Subscribed(w) == wt[w].fsWatcher /\ wt[w].phase = "active"
CanRaise(w) == Subscribed(w) /\ Len(evq[w]) < MaxEvents
Raise(w, e, d) == IF d THEN [evq EXCEPT ![w] = Append(@, e)] ELSE evq

\* The environment writes tools.json of root r (created or modified).
fsWrite(r, c, d) ==
    /\ clock <= MaxFsOps
    /\ d => CanRaise(r)
    /\ fs' = [fs EXCEPT ![r] = [exists |-> TRUE, content |-> c, mtime |-> clock + 1]]
    /\ clock' = clock + 1
    /\ evq' = Raise(r, "change", d)
    /\ UNCHANGED <<wt, tasks, srv>>
    /\ Quiet

\* The environment deletes tools.json of root r.
fsDelete(r, d) ==
    /\ clock <= MaxFsOps
    /\ fs[r].exists
    /\ d => CanRaise(r)
    /\ fs' = [fs EXCEPT ![r] = [exists |-> FALSE, content |-> BadJson, mtime |-> 0]]
    /\ clock' = clock + 1
    /\ evq' = Raise(r, "unlink", d)
    /\ notes' = [notes EXCEPT ![r].nDeleted = @ + 1]
    /\ UNCHANGED <<wt, tasks, srv, regTools, lastOp, emitted, run, rpc>>

\* ---------------------------------------------------------- event channel
\* debouncedLoad that sets a new timer without clearing the pending one.
debouncedLoadNoClear(wr) ==
    LET n == IF wr.debounceTimer THEN wr.burst + 1 ELSE 1
    IN  [wr EXCEPT !.debounceTimer = TRUE, !.burst = n,
                   !.timeouts = Append(@, [delay |-> DEBOUNCE_DELAY, event |-> n])]

\* debouncedLoad: clear a pending timer, set a new one.
debouncedLoad(wr) ==
    LET n == IF wr.debounceTimer THEN wr.burst + 1 ELSE 1
        kept == IF wr.debounceTimer THEN clearTimeout(wr.timeouts) ELSE wr.timeouts
    IN  [wr EXCEPT !.debounceTimer = TRUE, !.burst = n,
                   !.timeouts = Append(kept, [delay |-> DEBOUNCE_DELAY, event |-> n])]

\* chokidar 'add' / 'change'.
handleChange(w) ==
    /\ Subscribed(w)
    /\ evq[w] # <<>> /\ Head(evq[w]) = "change"
    /\ evq' = [evq EXCEPT ![w] = Tail(@)]
    /\ wt' = [wt EXCEPT ![w] = debouncedLoad(@)]
    /\ UNCHANGED <<fs, clock, tasks, srv>>
    /\ Quiet

\* A reset that also tears the two channels down.
ForgetAndDisarm(wr) ==
    [wr EXCEPT !.lastMtime = 0, !.lastConfig = <<>>,
               !.fsWatcher = FALSE, !.pollTimer = FALSE]

\* The fields handleDelete and poll reset before they emit 'delete'.
Forget(wr) == [wr EXCEPT !.lastMtime = 0, !.lastConfig = <<>>]

\* chokidar 'unlink'.
handleDelete(w) ==
    /\ Subscribed(w)
    /\ evq[w] # <<>> /\ Head(evq[w]) = "unlink"
    /\ evq' = [evq EXCEPT ![w] = Tail(@)]
    /\ wt' = [wt EXCEPT ![w] = Forget(@)]
    /\ OnDelete(w)
    /\ UNCHANGED <<fs, clock, tasks, srv>>

\* The debounce timer fires: loadAndEmit starts.
debounceFire(w) ==
    /\ wt[w].timeouts # <<>>
    /\ Room
    /\ wt' = [wt EXCEPT ![w].debounceTimer = FALSE, ![w].timeouts = Tail(@),
                        ![w].burst = 0]
    /\ tasks' = loadAndEmit(w, "debounce", tasks)
    /\ UNCHANGED <<fs, clock, evq, srv>>
    /\ Quiet

\* ----------------------------------------------------------- poll channel
\* poll's deletion branch: only when a modification time is recorded.
PollSeesDeleted(w) == wt[w].lastMtime # 0

pollDelete(w) ==
    IF PollSeesDeleted(w)
    THEN wt' = [wt EXCEPT ![w] = Forget(@)] /\ OnDelete(w)
    ELSE UNCHANGED wt /\ Quiet

\* A tick of the poll interval: existsSync, then either the deletion branch
\* or stat is issued.
poll(w) ==
    /\ wt[w].pollTimer
    /\ Room
    /\ IF ~fs[w].exists
       THEN pollDelete(w) /\ UNCHANGED tasks
       ELSE /\ tasks' = Add(Task(w, "poll_stat_io", "poll"))
            /\ UNCHANGED wt
            /\ Quiet
    /\ UNCHANGED <<fs, clock, evq, srv>>

\* stat on the thread pool: the modification time, or 0 for a rejection.
statDone(t) ==
    /\ t.pc \in {"stat_io", "poll_stat_io"}
    /\ tasks' = Replace(t, [t EXCEPT !.pc = IF @ = "stat_io" THEN "stat_cb" ELSE "poll_stat_cb",
                                     !.mt = IF fs[t.w].exists THEN fs[t.w].mtime ELSE 0])
    /\ UNCHANGED <<fs, clock, wt, evq, srv>>
    /\ Quiet

\* poll after `await stat`: a changed mtime is recorded and loadAndEmit
\* starts; a rejection is taken for a deletion.
pollStat(t) ==
    /\ t.pc = "poll_stat_cb"
    /\ IF t.mt = 0
       THEN pollDelete(t.w) /\ tasks' = Drop(t)
       ELSE /\ IF t.mt # wt[t.w].lastMtime
               THEN /\ wt' = [wt EXCEPT ![t.w].lastMtime = t.mt]
                    /\ tasks' = loadAndEmit(t.w, "poll", Drop(t))
               ELSE /\ tasks' = Drop(t)
                    /\ UNCHANGED wt
            /\ Quiet
    /\ UNCHANGED <<fs, clock, evq, srv>>

\* ------------------------------------------------------------- loadAndEmit
\* A failed load that also drops the last good configuration.
LoadFailedForgets(w, wr) ==
    /\ wt' = [wt EXCEPT ![w] = [wr EXCEPT !.lastConfig = <<>>]]
    /\ OnError(w)

\* What loadAndEmit does with a failed parse: 'error', nothing else.  wr is
\* the watcher as the caller leaves it.
LoadFailed(w, wr) ==
    /\ wt' = [wt EXCEPT ![w] = wr]
    /\ OnError(w)

\* loadAndEmit after `await stat`: the mtime is recorded (a rejection is
\* ignored); parseToolsJson starts: existsSync, then readFile is issued.
\* A missing file is a failed parse: 'error' is emitted.
loadStat(t) ==
    LET w == t.w
        wr == IF t.mt # 0 THEN [wt[w] EXCEPT !.lastMtime = t.mt] ELSE wt[w]
    IN  /\ t.pc = "stat_cb"
        /\ IF fs[w].exists
           THEN /\ tasks' = Replace(t, [t EXCEPT !.pc = "read_io", !.mt = 0])
                /\ wt' = [wt EXCEPT ![w] = wr]
                /\ UNCHANGED srv
                /\ Quiet
           ELSE /\ tasks' = Drop(t)
                /\ srv' = AfterLoadSrv(w, t.origin)
                /\ LoadFailed(w, AfterLoad(wr, t.origin))
        /\ UNCHANGED <<fs, clock, evq>>

\* readFile on the thread pool: the content (and, for observation, the
\* mtime it was written at), or nothing for a rejection.
readDone(t) ==
    /\ t.pc = "read_io"
    /\ tasks' = Replace(t, [t EXCEPT !.pc = "read_cb",
                                     !.data = IF fs[t.w].exists THEN <<fs[t.w].content>> ELSE <<>>,
                                     !.ver = fs[t.w].mtime])
    /\ UNCHANGED <<fs, clock, wt, evq, srv>>
    /\ Quiet

\* parseToolsJson after `await readFile`.
parseToolsJson(data) ==
    IF data = <<>> THEN [success |-> FALSE, stage |-> "read", config |-> <<>>]
    ELSE ParseContent(data[1])

\* loadAndEmit after `await parseToolsJson`: a failure emits 'error'; a
\* success sets lastConfig and emits 'change'.
loadParsed(t) ==
    LET w == t.w
        result == parseToolsJson(t.data)
    IN  /\ t.pc = "read_cb"
        /\ tasks' = Drop(t)
        /\ srv' = AfterLoadSrv(w, t.origin)
        /\ IF ~result.success
           THEN LoadFailed(w, AfterLoad(wt[w], t.origin))
           ELSE /\ wt' = [wt EXCEPT ![w] =
                            AfterLoad([@ EXCEPT !.lastConfig = result.config], t.origin)]
                /\ OnChange(w, result.config[1], t.ver)
                /\ UNCHANGED notes
        /\ UNCHANGED <<fs, clock, evq>>

\* ---------------------------------------------------------------- executor
\* String(value): without the `?? ''`, null becomes "null".
StringOfRaw(v) ==
    IF v.t = "null" THEN "null" ELSE IF v.t = "number" THEN ToString(v.n) ELSE v.s

\* String(value ?? '').
StringOf(v) ==
    IF v.t = "null" THEN "" ELSE IF v.t = "number" THEN ToString(v.n) ELSE v.s

\* key.toUpperCase().
toUpperCase(k) == IF k = "name" THEN "NAME" ELSE k

\* env[k] = v.
Assign(env, k, v) == [x \in DOMAIN env \cup {k} |-> IF x = k THEN v ELSE env[x]]

\* process.env, then the three variables of the invocation.
BaseEnv(r) ==
    [x \in {"PATH", "PROJECT_ROOT", "MCP_TOOLS_DIR", "TOOL_NAME"} |->
        CASE x = "PATH" -> "/usr/bin"
          [] x = "PROJECT_ROOT" -> r.projectRoot
          [] x = "MCP_TOOLS_DIR" -> r.mcpDir
          [] x = "TOOL_NAME" -> r.toolName]

\* The loop over Object.entries(params): PARAM_<KEY>, then the bare key.
RECURSIVE AddParams(_, _, _)
AddParams(env, params, i) ==
    IF i > Len(params) THEN env
    ELSE LET k == params[i][1]
             v == StringOf(params[i][2])
         IN  AddParams(Assign(Assign(env, "PARAM_" \o toUpperCase(k), v), k, v),
                       params, i + 1)

BuildEnv(r) == AddParams(BaseEnv(r), r.params, 1)

\* executor.timeout ?? DEFAULT_TIMEOUT.
ResolveTimeout(e) == IF e.timeout = <<>> THEN DEFAULT_TIMEOUT ELSE e.timeout[1]

\* setTimeout(f, ms): a delay below 1 or above 2^31 - 1 is set to 1.
TimerDelay(ms) == IF ms < 1 \/ ms > 2147483647 THEN 1 ELSE ms

\* if (x) on an optional string: absent and '' are both false.
Truthy(opt) == opt # <<>> /\ opt[1] # ""

Result(success, exitCode, kind, arg) ==
    [success |-> success, exitCode |-> exitCode,
     error |-> IF kind = "none" THEN <<>> ELSE <<[kind |-> kind, arg |-> arg]>>]

\* `return result` before any child exists.
Return(r, res) == [r EXCEPT !.pc = "returned", !.result = <<res>>]

\* resolve(result) of the promise of executeBash / executePython: the first
\* call settles it, a later one does nothing.
Resolve(r, res) == IF r.result = <<>> THEN [r EXCEPT !.result = <<res>>] ELSE r

\* executeBash / executePython up to the end of the promise executor:
\* spawn, then the timeout timer.
Spawn(r, cmd, code) ==
    [r EXCEPT !.pc = "spawned",
              !.spawned = <<[cmd |-> cmd, code |-> code, env |-> r.env,
                             cwd |-> r.projectRoot]>>,
              !.proc = IF r.interp THEN "running" ELSE "failing",
              !.timer = [state |-> "armed", delay |-> TimerDelay(r.timeout)]]

\* "Execute based on type".
Dispatch(r, code) ==
    IF r.executor.type = "bash" THEN Spawn(r, "bash", code)
    ELSE IF r.executor.type = "python" THEN Spawn(r, "python3", code)
    ELSE Return(r, Result(FALSE, 1, "unknown_type", r.executor.type))

\* executeCommand up to its first await or its return, r0 being the call.
executeCommandHead(r0) ==
    LET r == [r0 EXCEPT !.timeout = ResolveTimeout(r0.executor),
                        !.env = BuildEnv(r0)]
    IN  IF Truthy(r.executor.code) THEN Dispatch(r, r.executor.code[1])
        ELSE IF Truthy(r.executor.file)
             THEN IF r.script = "missing"
                  THEN Return(r, Result(FALSE, 1, "not_found",
                                        r.mcpDir \o "/" \o r.executor.file[1]))
                  ELSE [r EXCEPT !.pc = "read_io"]
             ELSE Return(r, Result(FALSE, 1, "no_source", ""))

executeCommand ==
    /\ run.pc = "init"
    /\ run' = executeCommandHead(run)
    /\ UNCHANGED wvars

\* The script file is removed while the invocation runs.
scriptRemoved ==
    /\ run.pc = "read_io"
    /\ run.script # "missing"
    /\ run' = [run EXCEPT !.script = "missing"]
    /\ UNCHANGED wvars

\* readFile on the thread pool: the content, or a rejection.
readFileDone ==
    /\ run.pc = "read_io"
    /\ run' = [run EXCEPT !.pc = "read_cb",
                          !.read = IF run.script = "present"
                                   THEN <<"script">> ELSE <<>>]
    /\ UNCHANGED wvars

\* executeCommand after `await readFile`: nothing catches a rejection, so
\* the promise of executeCommand rejects with it.
readFileCb ==
    /\ run.pc = "read_cb"
    /\ run' = IF run.read = <<>>
              THEN [run EXCEPT !.pc = "returned", !.rejected = TRUE]
              ELSE Dispatch(run, run.read[1])
    /\ UNCHANGED wvars

\* clearTimeout(timer).
Clear(t) == IF t.state = "armed" THEN [t EXCEPT !.state = "cleared"] ELSE t

\* The 'error' handler.
OnProcError(r) ==
    Resolve([r EXCEPT !.timer = Clear(@)], Result(FALSE, 1, "spawn", r.spawned[1].cmd))

\* The interpreter could not be started: 'error' on the next tick, before
\* any timer.
spawnError ==
    /\ run.proc = "failing"
    /\ run' = OnProcError([run EXCEPT !.proc = "errored"])
    /\ UNCHANGED wvars

\* proc.kill(sig).  A child that has exited has no handle: nothing is sent.
\* For a running child, ok says whether the signal could be sent; when it
\* could not, ChildProcess emits 'error'.
Kill(r, sig, ok) ==
    IF r.proc # "running" THEN r
    ELSE IF ok THEN [r EXCEPT !.procKilled = TRUE, !.sent = Append(@, sig)]
    ELSE OnProcError(r)

\* The timeout timer expires.
timerFire(ok) ==
    /\ run.timer.state = "armed"
    /\ run.proc # "failing"
    /\ run' = [Kill([run EXCEPT !.killed = TRUE, !.timer.state = "fired"],
                    "SIGTERM", ok)
                 EXCEPT !.grace = [state |-> "armed", delay |-> KILL_GRACE]]
    /\ UNCHANGED wvars

\* The timer set at expiry fires: SIGKILL unless proc.killed.
graceFire(ok) ==
    /\ run.grace.state = "armed"
    /\ LET r == [run EXCEPT !.grace.state = "fired"]
       IN  run' = IF ~r.procKilled THEN Kill(r, "SIGKILL", ok) ELSE r
    /\ UNCHANGED wvars

\* The child exits on its own with code c (also from a SIGTERM handler).
childExit(c) ==
    /\ run.proc = "running"
    /\ "SIGKILL" \notin {run.sent[i] : i \in DOMAIN run.sent}
    /\ run' = [run EXCEPT !.proc = "exited",
                          !.exit = <<[code |-> <<c>>, signal |-> "none"]>>]
    /\ UNCHANGED wvars

\* The child is terminated by a signal: one the engine sent, or one from
\* elsewhere ("other").  There is no exit code then.
childSignalled(sig) ==
    /\ run.proc = "running"
    /\ sig = "other" \/ sig \in {run.sent[i] : i \in DOMAIN run.sent}
    /\ run' = [run EXCEPT !.proc = "exited",
                          !.exit = <<[code |-> <<>>, signal |-> sig]>>]
    /\ UNCHANGED wvars

\* The 'close' handler of a child that ran, exitCode being <<>> for null.
OnClose(r, exitCode) ==
    LET c == [r EXCEPT !.timer = Clear(@), !.proc = "closed"]
    IN  IF r.killed
        THEN Resolve(c, Result(FALSE, IF exitCode = <<>> THEN 1 ELSE exitCode[1],
                               "timeout", ToString(r.timeout)))
        ELSE Resolve(c, Result(exitCode = <<0>>,
                               IF exitCode = <<>> THEN 0 ELSE exitCode[1],
                               "none", ""))

\* 'close': after the exit, once the child's stdout and stderr have ended;
\* after a failed spawn, with the negative error number as the code.
close ==
    /\ run.proc \in {"exited", "errored"}
    /\ run' = IF run.proc = "exited"
              THEN OnClose(run, run.exit[1].code)
              ELSE OnClose(run, <<-2>>)
    /\ UNCHANGED wvars

\* The promise of executeCommand has settled.
Settles(r) == r.result # <<>> \/ r.rejected

\* --------------------------------------------------------- request handlers
\* Built-in tools: the names of builtinTools.
builtinTools == <<"bootstrap_tools">>

\* The names a client asks for.
CallNames == {"a", "b"} \cup {builtinTools[i] : i \in DOMAIN builtinTools}

\* The executor of a tool definition, and the paths of a root.
ExecutorOf(t) ==
    [type |-> "bash", code |-> <<IF t.body = 1 THEN "prog" ELSE "prog2">>,
     file |-> <<>>, timeout |-> <<>>]
PathOf(r) == IF r = 1 THEN "/proj" ELSE "/client"

\* A response: content[0].text as its kind and argument, and isError.
Response(isError, kind, arg) == [isError |-> isError, kind |-> kind, arg |-> arg]

\* Requests are served once startServer has connected the transport.
Connected ==
    \/ srv.pc \in {"negotiating", "switching", "ready"}
    \/ srv.pc = "starting" /\ srv.currentProjectRoot = 2

\* isInitialized: set after the first startWatcher, reset for the switch to
\* the client's root, set again at the end of startServer.
isInitialized == srv.pc \in {"negotiating", "ready"}

\* initPromise is settled: by startServer, or by a tools/list timer.
InitSettled == isInitialized \/ rpc.forced

\* The tools/call handler for name n, up to its return or to the first
\* await inside executeCommand.
toolsCall(n) ==
    /\ Connected
    /\ rpc.call.outcome # "executing"
    /\ LET root == srv.currentProjectRoot
           tool == getTool(regTools, n)
           call == [NoCall EXCEPT !.name = n]
       IN  IF root = 0
           THEN /\ rpc' = [rpc EXCEPT !.call =
                              [call EXCEPT !.outcome = "not_initialized",
                                           !.response = <<Response(TRUE, "not_initialized", <<>>)>>]]
                /\ UNCHANGED run
           ELSE IF tool = <<>>
           THEN /\ rpc' = [rpc EXCEPT !.call =
                              [call EXCEPT !.outcome = "unknown",
                                           !.response = <<Response(TRUE, "unknown_tool", <<n>>)>>]]
                /\ UNCHANGED run
           ELSE /\ rpc' = [rpc EXCEPT !.call =
                              [call EXCEPT !.outcome = "executing",
                                           !.tool = tool, !.root = root]]
                /\ run' = executeCommandHead(
                              [Run(ExecutorOf(tool[1]), <<>>, "missing", TRUE)
                                  EXCEPT !.projectRoot = PathOf(root),
                                         !.mcpDir = PathOf(root) \o "/.mcp",
                                         !.toolName = n])
    /\ UNCHANGED <<fs, clock, wt, tasks, evq, regTools, srv, notes, emitted, lastOp>>

\* The tools/call handler after `await executeCommand`: the response built
\* from the result, or from the rejection.
callDone ==
    /\ rpc.call.outcome = "executing"
    /\ Settles(run)
    /\ LET response ==
              IF run.rejected THEN Response(TRUE, "execution_error", <<>>)
              ELSE LET result == run.result[1]
                   IN  IF ~result.success
                       THEN IF result.error # <<>>
                            THEN Response(TRUE, "error", result.error)
                            ELSE Response(TRUE, "exit_code", <<result.exitCode>>)
                       ELSE Response(FALSE, "output", <<>>)
       IN  rpc' = [rpc EXCEPT !.call.outcome = "done", !.call.response = <<response>>]
    /\ UNCHANGED <<fs, clock, wt, tasks, evq, regTools, srv, notes, emitted, lastOp, run>>

\* The tools/list handler up to its return or its await: initialized, it
\* answers at once; otherwise it sets its 5-second timer and awaits
\* initPromise (which a timer may already have settled).  One request is
\* outstanding at a time; `timer` says some 5-second timer is pending.
Answered(r) ==
    [r EXCEPT !.list.state = "answered", !.list.answer = getTools(regTools)]

toolsList ==
    /\ Connected
    /\ rpc.list.state # "waiting"
    /\ rpc' = IF isInitialized THEN Answered(rpc)
              ELSE LET r == [rpc EXCEPT !.list.timer = TRUE]
                   IN  IF rpc.forced THEN Answered(r)
                       ELSE [r EXCEPT !.list.state = "waiting", !.list.answer = <<>>]
    /\ UNCHANGED <<fs, clock, wt, tasks, evq, regTools, srv, notes, emitted, lastOp, run>>

\* The timer callback that leaves initPromise alone.
resolveTimeoutIdle(r) == [r EXCEPT !.list.timer = FALSE]

\* resolveTimeout: the timer callback calls initResolve() when the server
\* is still not initialized.
resolveTimeout(r) ==
    [r EXCEPT !.list.timer = FALSE, !.forced = @ \/ ~isInitialized]

\* A 5-second timer of tools/list fires.
listTimeout ==
    /\ rpc.list.timer
    /\ rpc' = resolveTimeout(rpc)
    /\ UNCHANGED <<fs, clock, wt, tasks, evq, regTools, srv, notes, emitted, lastOp, run>>

\* The tools/list handler after its await: initPromise is settled.
listAnswer ==
    /\ rpc.list.state = "waiting"
    /\ InitSettled
    /\ rpc' = Answered(rpc)
    /\ UNCHANGED <<fs, clock, wt, tasks, evq, regTools, srv, notes, emitted, lastOp, run>>

\* start() of the client root's watcher rejects: the schema of the
\* validator cannot be read when the first parse needs it (no load of the
\* initial root got that far).  startServer catches, logs and sets
\* isInitialized; the watcher never arms its channels.
startFails(t) ==
    /\ t.pc = "read_cb" /\ t.origin = "start" /\ t.w = 2
    /\ t.data # <<>> /\ t.data[1].json
    /\ ~(fs[1].exists /\ fs[1].content.json)
    /\ tasks' = Drop(t)
    /\ srv' = [srv EXCEPT !.pc = "ready"]
    /\ UNCHANGED <<fs, clock, wt, evq>>
    /\ Quiet

\* ------------------------------------------------------------ specification
Next ==
    \/ startServer
    \/ \E r \in Roots : rootsResult(r)
    \/ stopDone
    \/ \E r \in Roots, c \in Contents, d \in BOOLEAN : c \in ContentsOf(r) /\ fsWrite(r, c, d)
    \/ \E r \in Roots, d \in BOOLEAN : fsDelete(r, d)
    \/ \E w \in Roots : handleChange(w)
    \/ \E w \in Roots : handleDelete(w)
    \/ \E w \in Roots : debounceFire(w)
    \/ \E w \in Roots : poll(w)
    \/ \E t \in InFlight : statDone(t)
    \/ \E t \in InFlight : pollStat(t)
    \/ \E t \in InFlight : loadStat(t)
    \/ \E t \in InFlight : readDone(t)
    \/ \E t \in InFlight : loadParsed(t)

Spec == Init /\ [][Next]_vars

\* The event channel delivers nothing: every chokidar notification is lost.
NextPollOnly ==
    \/ startServer
    \/ \E r \in Roots : rootsResult(r)
    \/ stopDone
    \/ \E r \in Roots, c \in Contents : c \in ContentsOf(r) /\ fsWrite(r, c, FALSE)
    \/ \E r \in Roots : fsDelete(r, FALSE)
    \/ \E w \in Roots : poll(w)
    \/ \E t \in InFlight : statDone(t)
    \/ \E t \in InFlight : pollStat(t)
    \/ \E t \in InFlight : loadStat(t)
    \/ \E t \in InFlight : readDone(t)
    \/ \E t \in InFlight : loadParsed(t)

SpecPollOnly == Init /\ [][NextPollOnly]_vars

\* One invocation of executeCommand, its tools/call handler awaiting it, the
\* watcher at rest.
InitExec ==
    /\ fs = [r \in Roots |-> [exists |-> FALSE, content |-> BadJson, mtime |-> 0]]
    /\ clock = 1
    /\ wt = [w \in Roots |-> NewWatcher]
    /\ tasks = EmptyBag
    /\ evq = [w \in Roots |-> <<>>]
    /\ regTools = <<>>
    /\ srv = [pc |-> "init", currentProjectRoot |-> 0]
    /\ notes = [w \in Roots |-> NoNotes]
    /\ emitted = [w |-> 0, kind |-> "none", flip |-> FALSE]
    /\ lastOp = NoOp
    /\ rpc = [NoRpc EXCEPT !.call.name = "greet", !.call.outcome = "executing"]
    /\ \E e \in Executors, p \in ParamMaps, sc \in ScriptStates, i \in BOOLEAN :
          run = Run(e, p, sc, i)

NextExec ==
    \/ executeCommand
    \/ scriptRemoved
    \/ readFileDone
    \/ readFileCb
    \/ spawnError
    \/ \E ok \in BOOLEAN : timerFire(ok)
    \/ \E ok \in BOOLEAN : graceFire(ok)
    \/ \E c \in {0, 1} : childExit(c)
    \/ \E sig \in {"SIGTERM", "SIGKILL", "other"} : childSignalled(sig)
    \/ close
    \/ callDone

SpecExec == InitExec /\ [][NextExec]_vars
\* The request handlers, with the watcher of the initial root on its poll
\* channel: the client confirms the initial root, so the server is
\* initialized whenever it is connected.
NextRpc ==
    \/ startServer
    \/ rootsResult(1)
    \/ \E c \in Contents : fsWrite(1, c, FALSE)
    \/ fsDelete(1, FALSE)
    \/ poll(1)
    \/ \E t \in InFlight : statDone(t)
    \/ \E t \in InFlight : pollStat(t)
    \/ \E t \in InFlight : loadStat(t)
    \/ \E t \in InFlight : readDone(t)
    \/ \E t \in InFlight : loadParsed(t)
    \/ \E n \in CallNames : toolsCall(n)
    \/ toolsList

\* Only the initial root has a tools.json.
InitOneRoot == Init /\ ~fs[2].exists

SpecRpc == InitOneRoot /\ [][NextRpc]_vars

\* The watcher of the initial root alone, both channels at work: its timers
\* fire, delivered events are handled and file operations complete.
NextWatch ==
    \/ startServer
    \/ rootsResult(1)
    \/ \E c \in Contents, d \in BOOLEAN : fsWrite(1, c, d)
    \/ \E d \in BOOLEAN : fsDelete(1, d)
    \/ handleChange(1)
    \/ handleDelete(1)
    \/ debounceFire(1)
    \/ poll(1)
    \/ \E t \in InFlight : statDone(t)
    \/ \E t \in InFlight : pollStat(t)
    \/ \E t \in InFlight : loadStat(t)
    \/ \E t \in InFlight : readDone(t)
    \/ \E t \in InFlight : loadParsed(t)

FairWatch ==
    /\ WF_vars(handleChange(1))
    /\ WF_vars(handleDelete(1))
    /\ WF_vars(debounceFire(1))
    /\ WF_vars(poll(1))
    /\ WF_vars(\E t \in InFlight : t.pc = "stat_io" /\ statDone(t))
    /\ WF_vars(\E t \in InFlight : t.pc = "poll_stat_io" /\ statDone(t))
    /\ WF_vars(\E t \in InFlight : pollStat(t))
    /\ WF_vars(\E t \in InFlight : loadStat(t))
    /\ WF_vars(\E t \in InFlight : readDone(t))
    /\ WF_vars(\E t \in InFlight : loadParsed(t))

SpecWatch == InitOneRoot /\ [][NextWatch]_vars /\ FairWatch

\* One watcher and an owner that calls stop() on it at any time: before it
\* was started, while it runs, and again after a stop.
NextStop ==
    \/ startServer
    \/ \E c \in Contents, d \in BOOLEAN : fsWrite(1, c, d)
    \/ handleChange(1)
    \/ debounceFire(1)
    \/ poll(1)
    \/ \E t \in InFlight : statDone(t)
    \/ \E t \in InFlight : pollStat(t)
    \/ \E t \in InFlight : loadStat(t)
    \/ \E t \in InFlight : readDone(t)
    \/ \E t \in InFlight : loadParsed(t)
    \/ stop(1)
    \/ stopClosed(1)

SpecStop == InitOneRoot /\ [][NextStop]_vars

\* tools/call against start-up and the switch to the client's root: the
\* files do not change, so what a root's tools.json declares is fixed.
NextSwitch ==
    \/ startServer
    \/ \E r \in Roots : rootsResult(r)
    \/ stopDone
    \/ \E t \in InFlight : statDone(t)
    \/ \E t \in InFlight : loadStat(t)
    \/ \E t \in InFlight : readDone(t)
    \/ \E t \in InFlight : loadParsed(t)
    \/ \E t \in InFlight : startFails(t)
    \/ \E n \in CallNames : toolsCall(n)

SpecSwitch == Init /\ [][NextSwitch]_vars

\* tools/list against start-up: the files do not change, every load may
\* take for ever, and only the handler's own steps are certain to happen.
NextList ==
    \/ startServer
    \/ \E r \in Roots : rootsResult(r)
    \/ stopDone
    \/ \E t \in InFlight : statDone(t)
    \/ \E t \in InFlight : loadStat(t)
    \/ \E t \in InFlight : readDone(t)
    \/ \E t \in InFlight : loadParsed(t)
    \/ \E t \in InFlight : startFails(t)
    \/ toolsList
    \/ listTimeout
    \/ listAnswer

SpecList ==
    Init /\ [][NextList]_vars /\ WF_vars(listTimeout) /\ WF_vars(listAnswer)


\* ------------------------------------------------------- the registry alone
\* The files the schema accepts with up to MaxTools tools: the schema puts
\* no uniqueness constraint on the names, so a name may be declared twice.
RECURSIVE ToolLists(_)
ToolLists(n) ==
    IF n = 0 THEN {<<>>}
    ELSE ToolLists(n - 1)
         \cup {Append(ts, Tool(nm, b)) :
                  ts \in {l \in ToolLists(n - 1) : Len(l) = n - 1},
                  nm \in {"a", "b"}, b \in {1, 2}}

Snapshots == {Content(TRUE, TRUE, ts) : ts \in ToolLists(MaxTools)}

InitRegistry ==
    /\ fs = [r \in Roots |-> [exists |-> FALSE, content |-> BadJson, mtime |-> 0]]
    /\ clock = 1
    /\ wt = [w \in Roots |-> NewWatcher]
    /\ tasks = EmptyBag
    /\ evq = [w \in Roots |-> <<>>]
    /\ regTools = <<>>
    /\ srv = [pc |-> "init", currentProjectRoot |-> 0]
    /\ notes = [w \in Roots |-> NoNotes]
    /\ emitted = [w |-> 0, kind |-> "none", flip |-> FALSE]
    /\ lastOp = NoOp
    /\ run = NoRun
    /\ rpc = NoRpc

\* The loader accepts file content c and the registry applies the snapshot.
registryUpdate(c) ==
    LET result == ParseContent(c)
    IN  /\ result.success
        /\ LET r == updateFromConfig(regTools, result.config[1], 0)
           IN  regTools' = r.tools /\ lastOp' = r.op
        /\ UNCHANGED <<fs, clock, wt, tasks, evq, srv, notes, emitted, run, rpc>>

registryClear ==
    /\ LET r == clear(regTools)
       IN  regTools' = r.tools /\ lastOp' = r.op
    /\ UNCHANGED <<fs, clock, wt, tasks, evq, srv, notes, emitted, run, rpc>>

NextRegistry ==
    \/ \E c \in Snapshots : registryUpdate(c)
    \/ registryClear

SpecRegistry == InitRegistry /\ [][NextRegistry]_vars


\* ------------------------------------------------------------------ claims
\* m is the mapping of snapshot c: the names of c, each bound to a
\* definition c declares under that name.
IsMappingOf(m, c) ==
    /\ Names(m) = Names(c.tools)
    /\ \A i, j \in 1..Len(m) : m[i].name = m[j].name => i = j
    /\ \A i \in 1..Len(m) : \E j \in 1..Len(c.tools) : c.tools[j] = m[i]

WholeSnapshot(m) == m = <<>> \/ \E c \in ValidContents : IsMappingOf(m, c)

\* C1: whenever a reader can run (between two callbacks), and in what an
\* 'update' listener is handed, the Registry is empty or is the whole
\* mapping of one snapshot the loader accepts: never a mix of two.
C1_WholeSnapshot ==
    /\ WholeSnapshot(regTools)
    /\ lastOp.emitted => WholeSnapshot(lastOp.payload) /\ lastOp.payload = regTools

\* C1 witness: a reload has replaced a non-empty Registry by a snapshot
\* that drops one of its names.
C1_Witness == lastOp.kind = "update" /\ lastOp.removed # {} /\ regTools # <<>>

\* A loadAndEmit call t returns in this step having failed: the file was
\* gone when parseToolsJson looked, or the read, the parse or the schema
\* validation failed.
FailsNow(t) ==
    /\ tasks' = Drop(t)
    /\ \/ t.pc = "stat_cb" /\ ~fs[t.w].exists
       \/ t.pc = "read_cb" /\ ~parseToolsJson(t.data).success

OneWatcher == srv.currentProjectRoot = 1 /\ wt[2].phase = "none"

\* C3: once the file has been deleted and the Registry emptied, the Registry
\* stays empty for as long as the file stays absent.
C3_StaysEmpty ==
    [][(/\ OneWatcher
        /\ notes[1].nDelete > 0
        /\ ~fs[1].exists /\ ~fs'[1].exists
        /\ regTools = <<>>) => regTools' = <<>>]_vars

\* C4: a watcher emits at most one 'delete' per deletion of its file,
\* whichever channel sees the deletion first.
C4_OneDeletePerDeletion == \A w \in Roots : notes[w].nDelete <= notes[w].nDeleted

\* Nothing of watcher w is pending: every later poll tick finds the mtime
\* it has recorded and does nothing, for as long as the file is unchanged.
Settled(w) ==
    /\ wt[w].phase = "active"
    /\ tasks = EmptyBag
    /\ fs[w].exists /\ wt[w].lastMtime = fs[w].mtime

\* C5: with no chokidar notification delivered, once polling has settled on
\* a valid file the Registry holds the commands of that file.
C5_PollConverges ==
    (/\ OneWatcher
     /\ srv.pc = "ready"
     /\ Settled(1)
     /\ fs[1].content \in ValidContents) => regTools = fs[1].content.tools

\* C6: the Registry never replaces a snapshot by one read from an earlier
\* content of the file.
C6_ForwardOnly ==
    [][(/\ OneWatcher
        /\ lastOp.kind = "update" /\ lastOp'.kind = "update") =>
           lastOp'.ver >= lastOp.ver]_vars

\* C7: after start() every loadAndEmit is started by the debounce timer:
\* none is started by a poll tick directly.
C7_AllLoadsDebounced ==
    \A t \in InFlight :
        t.pc \in {"stat_io", "stat_cb", "read_io", "read_cb"} =>
            t.origin \in {"start", "debounce"}

\* Watcher w is inside start(): neither channel is armed, no event is
\* queued for it, and its only call in flight is the initial load.
InitialLoadOnly(w) ==
    /\ ~wt[w].fsWatcher /\ ~wt[w].pollTimer /\ ~wt[w].debounceTimer
    /\ evq[w] = <<>>
    /\ \A t \in InFlight : t.w = w => t.origin = "start" /\ tasks[t] = 1

\* start() of watcher w resolves in this step, t being its initial load.
StartResolves(w, t) ==
    /\ t.w = w /\ t.origin = "start"
    /\ wt[w].phase = "starting" /\ wt'[w].phase = "active"

\* C8: until start() resolves nothing but the initial load runs for the
\* watcher; when it resolves on a valid file (not rewritten since the
\* initial load read it) 'change' has been delivered in that load,
\* lastConfig is the file's configuration, the Registry lists the file's
\* commands, and only now are the channels armed.
C8_InitialLoadFirst ==
    [][\A w \in Roots :
          /\ wt[w].phase = "starting" => InitialLoadOnly(w)
          /\ \A t \in InFlight :
                (/\ StartResolves(w, t)
                 /\ fs[w].exists /\ fs[w].content \in ValidContents
                 /\ t.ver = fs[w].mtime) =>
                    /\ emitted' = Emit(w, "change")
                    /\ wt'[w].lastConfig = <<fs[w].content>>
                    /\ IsMappingOf(regTools', fs[w].content)
                    /\ Len(regTools') = Len(fs[w].content.tools)
                    /\ wt'[w].fsWatcher /\ wt'[w].pollTimer]_vars

\* C8 witness: start() of the first watcher has just resolved on a valid
\* file: the server goes on to connect with the file's commands listed.
C8_Witness ==
    /\ srv.pc = "negotiating" /\ wt[1].phase = "active"
    /\ emitted = [w |-> 1, kind |-> "change", flip |-> TRUE]
    /\ fs[1].exists /\ wt[1].lastConfig = <<fs[1].content>>
    /\ regTools = fs[1].content.tools /\ regTools # <<>>
    /\ wt[1].fsWatcher /\ wt[1].pollTimer

\* C9: a reload that delivers the snapshot the Registry already holds emits
\* no 'update' and reports no added, removed or updated name.
C9_Idempotent ==
    (OneWatcher /\ lastOp.kind = "update" /\ lastOp.same) =>
        /\ ~lastOp.emitted
        /\ lastOp.added = <<>> /\ lastOp.removed = {} /\ lastOp.updated = <<>>

\* C10: when start() resolves for a path at which no file exists, the
\* Registry is empty and the watcher has emitted no 'error'.
C10_AbsentStartsEmpty ==
    [][\A w \in Roots :
          (wt[w].phase = "none" /\ wt'[w].phase = "active" /\ ~fs[w].exists) =>
              regTools' = <<>> /\ emitted' = emitted]_vars

\* Watcher w starts a loadAndEmit in this step: a call at its first await
\* that was not in flight before.
StartsLoad(w) ==
    \E o \in {"start", "debounce", "poll"} :
        CopiesIn(Task(w, "stat_io", o), tasks') > CopiesIn(Task(w, "stat_io", o), tasks)

\* C11: once stop() of a watcher has resolved, the watcher has no poll
\* timer, no pending debounce timer and no chokidar subscription, starts no
\* further load, emits no further notification and no longer modifies the
\* Registry.
C11_StoppedIsSilent ==
    [][\A w \in Roots :
          wt[w].phase = "stopped" =>
              /\ ~wt[w].pollTimer /\ ~wt[w].debounceTimer /\ ~wt[w].fsWatcher
              /\ ~StartsLoad(w)
              /\ emitted' # emitted => emitted'.w # w
              /\ regTools' # regTools => emitted'.w # w]_vars

\* C12: executeCommand never rejects; a missing script, a script that cannot
\* be read, a missing interpreter, a non-zero exit and a timeout all resolve
\* to a result with success = FALSE.
C12_NeverRejects ==
    /\ ~run.rejected
    /\ (/\ run.result # <<>>
        /\ \/ run.pc = "returned"
           \/ run.proc = "errored"
           \/ run.killed
           \/ run.exit # <<>> /\ run.exit[1].code # <<0>>) => ~run.result[1].success

\* C13: an executor with timeout -1 has no timer: its child is never sent a
\* signal and the run is never marked timed out; an executor with timeout
\* t >= 0 has t milliseconds before its timer expires.
C13_MinusOneIsInfinite ==
    /\ run.executor.timeout = <<-1>> =>
          /\ run.timer.state \in {"none", "armed", "cleared"}
          /\ run.sent = <<>> /\ ~run.killed
    /\ (/\ run.executor.timeout # <<>>
        /\ run.executor.timeout # <<-1>>
        /\ run.timer.state # "none") => run.timer.delay >= run.executor.timeout[1]

IsPrefixKill(sent) ==
    \A i \in DOMAIN sent : sent[i] = "SIGKILL" => \E j \in 1..(i - 1) : sent[j] = "SIGTERM"

\* C14: at expiry of the timeout the child is sent SIGTERM; a child that
\* has not exited 1000 ms later is sent SIGKILL; SIGKILL never comes before
\* SIGTERM, and a child that has exited is sent nothing.
C14_Escalates ==
    [][/\ (run.timer.state = "armed" /\ run'.timer.state = "fired"
              /\ run.proc = "running" /\ run'.sent # run.sent) =>
                  run'.sent = Append(run.sent, "SIGTERM")
       /\ (run.grace.state = "armed" /\ run'.grace.state = "fired"
              /\ run.grace.delay = 1000 /\ run.proc = "running") =>
                  run'.sent = Append(run.sent, "SIGKILL")
       /\ IsPrefixKill(run'.sent)
       /\ run.proc # "running" => run'.sent = run.sent]_vars

\* C15: a run whose timer expired before 'close' is reported unsuccessful,
\* with a diagnostic stating the timeout in force (the configured one, or
\* 30000 when the executor has none), whatever the exit code.
C15_TimedOutIsReported ==
    (run.killed /\ run.result # <<>>) =>
        /\ ~run.result[1].success
        /\ run.result[1].error =
              <<[kind |-> "timeout",
                 arg |-> IF run.executor.timeout = <<>> THEN "30000"
                         ELSE ToString(run.executor.timeout[1])]>>

\* C16: for a run that launched a child, success is TRUE exactly when the
\* child exited with code 0 and the run did not time out, and exitCode is
\* the exit code the child was seen to exit with.
C16_SuccessIffZero ==
    (run.proc = "closed" /\ run.exit # <<>> /\ run.result # <<>>) =>
        /\ run.result[1].success <=> (run.exit[1].code = <<0>> /\ ~run.killed)
        /\ <<run.result[1].exitCode>> = run.exit[1].code

\* What the documentation promises for a parameter: its names in the
\* environment and the string it is passed as.
ParamNameOf(k) == IF k = "TOOL_NAME" THEN "PARAM_TOOL_NAME" ELSE "PARAM_NAME"
CoercionOf(v) == IF v.t = "string" THEN v.s ELSE IF v.t = "number" THEN "7" ELSE ""

HasBoth(env, k, v) ==
    /\ ParamNameOf(k) \in DOMAIN env /\ env[ParamNameOf(k)] = CoercionOf(v)
    /\ k \in DOMAIN env /\ env[k] = CoercionOf(v)

\* The environment names a key is written to.
EnvNames(k) == {ParamNameOf(k), k}

\* No later entry of the mapping writes to a name that entry i writes to.
NotOverwritten(params, i) ==
    \A j \in (i + 1)..Len(params) : EnvNames(params[j][1]) \cap EnvNames(params[i][1]) = {}

\* C17 as stated: for every entry (k, v) of the parameter mapping the
\* child's environment has PARAM_<K> and k, both the string coercion of v.
C17_EveryParamTwice ==
    run.spawned # <<>> =>
        \A i \in DOMAIN run.params :
            HasBoth(run.spawned[1].env, run.params[i][1], run.params[i][2])

\* C17 amended: the same for every entry none of whose two names is
\* written again by a later entry of the mapping (the last write wins).
C17_LastWriteWins ==
    run.spawned # <<>> =>
        \A i \in DOMAIN run.params :
            NotOverwritten(run.params, i) =>
                HasBoth(run.spawned[1].env, run.params[i][1], run.params[i][2])

\* C17 witness: a child was started with a null parameter and a number, on
\* keys that do not collide.
C17_Witness ==
    /\ run.spawned # <<>> /\ Len(run.params) = 2
    /\ run.params[1] = <<"name", Value("null", "", 0)>>
    /\ run.params[2] = <<"TOOL_NAME", Value("number", "", 7)>>
    /\ run.spawned[1].env["PARAM_NAME"] = "" /\ run.spawned[1].env["name"] = ""
    /\ run.spawned[1].env["PARAM_TOOL_NAME"] = "7"

\* C18: the child's environment has PROJECT_ROOT, MCP_TOOLS_DIR and
\* TOOL_NAME of the invocation, whatever the parameter mapping.
C18_ReservedVariables ==
    run.spawned # <<>> =>
        /\ run.spawned[1].env["PROJECT_ROOT"] = run.projectRoot
        /\ run.spawned[1].env["MCP_TOOLS_DIR"] = run.mcpDir
        /\ run.spawned[1].env["TOOL_NAME"] = run.toolName

\* C19: an executor that has inline code (the empty string included) runs
\* exactly that code: the file is not consulted and no "must have either
\* code or file" error is returned.
C19_InlineCodeVerbatim ==
    (run.executor.code # <<>> /\ run.pc # "init") =>
        /\ run.pc \notin {"read_io", "read_cb"} /\ ~run.rejected
        /\ run.spawned # <<>> => run.spawned[1].code = run.executor.code[1]
        /\ run.executor.type \in {"bash", "python"} => run.spawned # <<>>
        /\ run.result # <<>> =>
              run.result[1].error \notin {<<[kind |-> "no_source", arg |-> ""]>>,
                                         <<[kind |-> "not_found",
                                            arg |-> "/proj/.mcp/run.sh"]>>}

\* C20: an executor whose kind is neither bash nor python starts no process
\* and, once executeCommand is past its head, has returned an unsuccessful
\* result whose diagnostic names the kind, whatever its source.
C20_UnknownKindNamed ==
    (run.executor.type \notin {"bash", "python"} /\ run.pc # "init") =>
        /\ run.spawned = <<>> /\ run.proc = "none"
        /\ run.pc = "returned" =>
              /\ ~run.rejected
              /\ run.result = <<Result(FALSE, 1, "unknown_type", run.executor.type)>>

\* The loadAndEmit calls of watcher w in progress: awaiting stat, the read
\* or the validation.
LoadsInProgress(w) ==
    {t \in InFlight : t.w = w /\ t.pc \in {"stat_io", "stat_cb", "read_io", "read_cb"}}

\* C25: within one watcher at most one loadAndEmit is in progress at any
\* time: no reload begins while a previous one still awaits its stat, its
\* read or its validation.
C25_OneLoadAtATime ==
    \A w \in Roots :
        /\ Cardinality(LoadsInProgress(w)) <= 1
        /\ \A t \in LoadsInProgress(w) : tasks[t] = 1

\* C22: for every snapshot the loader accepts, once the Registry has applied
\* it getTools() is exactly the snapshot's commands (as many entries, in
\* declared order, each the definition declared at its position) and
\* getTool(n) is the definition declared with name n.
C22_ListIsSnapshot ==
    [][\A c \in Snapshots :
          registryUpdate(c) =>
              /\ getTools(regTools') = c.tools
              /\ \A i \in 1..Len(c.tools) :
                    getTool(regTools', c.tools[i].name) = <<c.tools[i]>>]_vars

\* C23: clear() on an empty Registry emits no 'update' and leaves it empty;
\* on a non-empty Registry it empties it and emits one 'update' carrying
\* the empty list.
C23_ClearOnEmptyIsSilent ==
    [][registryClear =>
          /\ regTools' = <<>>
          /\ lastOp'.emitted = (regTools # <<>>)
          /\ lastOp'.emitted => lastOp'.payload = <<>>]_vars

C23_Witness == lastOp.kind = "clear" /\ ~lastOp.emitted /\ regTools = <<>>

\* C27: an invocation with a non-negative timeout always ends with a result,
\* whatever the child does: while its child runs and no result has been
\* delivered, the engine still has a step to come that ends the child (the
\* timeout timer, the escalation timer, or a SIGKILL already sent), so a
\* child that ignores SIGTERM and never exits by itself cannot keep the
\* promise of executeCommand pending for ever.
C27_AlwaysEndsTheChild ==
    (/\ run.pc = "spawned" /\ run.timeout >= 0
     /\ run.result = <<>> /\ run.proc = "running") =>
        \/ run.timer.state = "armed"
        \/ run.grace.state = "armed"
        \/ "SIGKILL" \in {run.sent[i] : i \in DOMAIN run.sent}

\* C29: an invocation that launched a child delivers one result, decided by
\* the first terminal event of the child ('error' of a failed spawn, or
\* 'close'): a result once delivered never changes, it is delivered only
\* when the child has failed to start or has closed, and when the spawn
\* 'error' comes first it is success = FALSE, exitCode = 1 with the spawn
\* diagnostic, the timeout timer is cancelled and the later 'close' changes
\* nothing.
C29_FirstTerminalEventDecides ==
    [][/\ run.result # <<>> => run'.result = run.result
       /\ (run.spawned # <<>> /\ run.result = <<>> /\ run'.result # <<>>) =>
              run'.proc \in {"errored", "closed"}
       /\ (run.proc # "errored" /\ run'.proc = "errored") =>
              /\ run'.result = <<Result(FALSE, 1, "spawn", run.spawned[1].cmd)>>
              /\ run'.timer.state = "cleared"]_vars

\* C26: a burst of add/change events, each arriving while the debounce
\* timer of the previous one is still pending (less than 300 ms after it),
\* causes exactly one loadAndEmit, started by the timer the last event of
\* the burst set, 300 ms after it; the watcher never has more than one
\* pending debounce timer.  An event of the burst replaces the pending
\* timer and starts no load; the firing timer starts one load and leaves
\* none pending.
C26_OneLoadPerBurst ==
    [][\A w \in Roots :
          /\ Len(wt'[w].timeouts) <= 1
          /\ wt'[w].burst > wt[w].burst =>
                /\ wt'[w].timeouts = <<[delay |-> 300, event |-> wt'[w].burst]>>
                /\ tasks' = tasks
          /\ (/\ Len(wt'[w].timeouts) < Len(wt[w].timeouts)
              /\ wt'[w].phase = wt[w].phase) =>
                /\ Head(wt[w].timeouts) = [delay |-> 300, event |-> wt[w].burst]
                /\ wt'[w].timeouts = <<>>
                /\ tasks' = loadAndEmit(w, "debounce", tasks)]_vars

C26_Witness == \E w \in Roots : wt[w].burst >= 2 /\ Len(wt[w].timeouts) = 1

C24_BuiltinAlwaysAvailable ==
    \A i \in DOMAIN builtinTools :
        /\ rpc.list.state = "answered" => builtinTools[i] \in Names(rpc.list.answer)
        /\ rpc.call.name = builtinTools[i] => rpc.call.outcome # "unknown"

\* C30: every tools/list request is answered: at once when the server is
\* initialized; otherwise once initialization completes or, at the latest,
\* when the 5-second timer has fired; always with what the Registry holds
\* at the moment of the answer.  This holds through start-up, through the
\* switch to the client's root and when startWatcher fails or never
\* returns.
C30_ListIsAnswered ==
    /\ [][(toolsList /\ isInitialized) =>
             /\ rpc'.list.state = "answered"
             /\ rpc'.list.answer = getTools(regTools)]_vars
    /\ [][(rpc.list.state = "waiting" /\ rpc'.list.state = "answered") =>
             /\ InitSettled
             /\ rpc'.list.answer = getTools(regTools')]_vars
    /\ (rpc.list.state = "waiting") ~> (rpc.list.state = "answered")

\* Answered after the 5-second wait, the switch of roots still under way.
C30_Witness == rpc.list.state = "answered" /\ rpc.forced /\ ~isInitialized

\* The deletion of watcher 1's file has been processed ('delete' emitted,
\* lastMtime 0, lastConfig null) and the file has been re-created with valid
\* content that no further file operation will change.
RecreatedForGood ==
    /\ notes[1].nDelete >= 1
    /\ wt[1].lastMtime = 0 /\ wt[1].lastConfig = <<>>
    /\ fs[1].exists /\ fs[1].content \in ValidContents
    /\ clock > MaxFsOps

\* A normal load of the file as it is has been applied.
LoadedAsIs ==
    /\ lastOp.kind = "update" /\ lastOp.ver = fs[1].mtime
    /\ wt[1].lastConfig = <<fs[1].content>>
    /\ getTools(regTools) = fs[1].content.tools

C33_ZeroOnlyOnSuccess ==
    /\ (/\ run.result # <<>>
        /\ ~run.result[1].success
        /\ run.result[1].error = <<>>) => run.result[1].exitCode # 0
    /\ (/\ rpc.call.response # <<>>
        /\ rpc.call.response[1].kind = "exit_code") => rpc.call.response[1].arg # <<0>>

\* C31: stop() is idempotent: on a watcher that was never started, and again
\* after a completed stop(), it returns without awaiting anything, emits no
\* notification, and leaves the watcher with no fs subscription, no poll
\* timer and no debounce timer, exactly as the first stop() left it.
C31_StopIsIdempotent ==
    [][(stop(1) /\ wt[1].phase \in {"none", "stopped"}) =>
          /\ wt'[1].phase = "stopped"
          /\ ~wt'[1].fsWatcher /\ ~wt'[1].pollTimer /\ ~wt'[1].debounceTimer
          /\ wt'[1].timeouts = <<>>
          /\ emitted' = emitted /\ regTools' = regTools /\ lastOp' = lastOp
          /\ wt[1].phase = "stopped" =>
                wt'[1] = [wt[1] EXCEPT !.stops = @ + 1]]_vars

\* A second stop() has returned on a watcher that had started, loaded its
\* file and been stopped.
C31_Witness ==
    wt[1].stops >= 2 /\ wt[1].phase = "stopped" /\ wt[1].lastConfig # <<>>

\* C34: with a single watcher wired to the Registry, between any two
\* callbacks the Registry and the watcher agree: the Registry is empty when
\* getLastConfig() is null, and otherwise it maps exactly the names of
\* getLastConfig().tools, each to a definition declared there; successful
\* loads, failed loads and deletions seen by either channel preserve this
\* in any order.
C34_RegistryIsLastConfig ==
    IF wt[1].lastConfig = <<>> THEN regTools = <<>>
    ELSE IsMappingOf(regTools, wt[1].lastConfig[1])

\* A deletion has emptied both, after a load had filled both.
C34_Witness ==
    /\ wt[1].lastConfig = <<>> /\ regTools = <<>>
    /\ lastOp.kind = "clear" /\ lastOp.emitted
    /\ notes[1].nDelete >= 1

\* C32: every execution started by tools/call runs a definition loaded from
\* the tools.json of the project root it is executed in: the definition the
\* Registry resolved and the root handed to executeCommand belong to the
\* same root, during the switch to the client's root and after it.  With
\* files that never change, a definition loaded from a root's tools.json is
\* one that file declares.
C32_ExecutesOwnRootsTool ==
    rpc.call.outcome = "executing" =>
        /\ fs[rpc.call.root].exists
        /\ \E i \in DOMAIN fs[rpc.call.root].content.tools :
              fs[rpc.call.root].content.tools[i] = rpc.call.tool[1]

====
